---- MODULE Spec2Model ----
(***************************************************************************)
(* The real-time telemetry engine of backend/main.py: the simulation task  *)
(* (simulate_sensors), the detection task (ai_loop), the publish pass      *)
(* (broadcast_state) and one connection handler per subscriber             *)
(* (websocket_endpoint), all coroutines of one asyncio event loop.  A      *)
(* coroutine runs without interruption from one await to the next, so one  *)
(* action is the code between two awaits; at an await any other coroutine  *)
(* that is ready may run.                                                  *)
(*                                                                         *)
(* A sensor value is represented by the index of the tick that produced    *)
(* it (the random walk's draw of that tick), and a reading by its id and   *)
(* that value: its unit and status are functions of the two.  A detector   *)
(* score is drawn from Scores, in hundredths.  A write to a connection     *)
(* returns while the peer reads, raises once the peer is gone and does     *)
(* not complete while the peer has stopped reading (link).                 *)
(***************************************************************************)
EXTENDS Integers, Sequences, FiniteSets, TLC

\* ------------------------------------------------------------- bounds
MaxConns == 3      \* subscriber connections there are (all attach in a run of FanSpec)
SpecConns == 2     \* connections that attach in a run of Spec
StallConns == 1    \* connections that attach in a run of StallSpec and of SoloSpec
MaxTicks == 52     \* simulation ticks of a run of Spec, SoloSpec, EngineSpec (past the warm-up floor)
FewTicks == 2      \* simulation ticks of a run of FanSpec and of StallSpec
MaxCycles == 2     \* detection cycles of a run of Spec and of SoloSpec
MaxFits == 11      \* refits of a run of EngineSpec (one more than the log holds)
ClockTicks == 60   \* simulation ticks of a run of ClockSpec
ClampSpan == 3     \* generate_sensor_value is applied to values and limits in -3..3
NoiseMax == 2      \* and to noise amplitudes in 0..2
StatusSpan == 22   \* update_sensor's classification is applied to values in -22..22
Horizon == 70      \* the time up to which a run of DelaySpec is followed

\* ---------------------------------------------------------- constants
WarmupFloor == 50  \* if state.data_count < 50 / if n_samples < 50
WindowSize == 50   \* if len(state.history[key]) > 50
LogCap == 10       \* if len(state.anomalies) > 10
Threshold == -20   \* if score < -0.2, in hundredths
TickPeriod == 1    \* await asyncio.sleep(1)
DetectPeriod == 10 \* await asyncio.sleep(10)

Conns == 1..MaxConns
NoConn == 0
Channels == <<"temperature", "pressure", "ph", "flowRate", "vibration">>
ChannelSet == {Channels[i] : i \in 1..Len(Channels)}
\* decision_function values the refitted model may give, in hundredths
Scores == {-30, -20, 10}

VARIABLES
    sensors,          \* state.sensors: insertion-ordered dict, as a sequence of readings
    anomalies,        \* state.anomalies
    twin_state,       \* state.twin_state (one dict object, shared by reference)
    clients,          \* state.clients
    history,          \* state.history
    is_model_fitted,  \* state.is_model_fitted
    data_count,       \* state.data_count
    simPc,            \* simulate_sensors: "sleep" (line 88), "send" (line 218), "dead" (raised)
    message,          \* broadcast_state's local message, without the twin_state it refers to
    simIdx,           \* index of the list iterator of line 216
    simCur,           \* the client whose send_text is awaited at line 218
    disconnected,     \* broadcast_state's local list
    hpc,              \* websocket_endpoint of each connection: its position
    link,             \* the transport of each connection: "up", "down", "stalled"
    cycles,           \* detection cycles run so far, counted up to MaxCycles
    passStart,        \* state.clients when the current pass started
    passMembers,      \* connections in state.clients ever since the pass started
    passIssued,       \* send_text calls of the current pass, per connection
    passDelivered,    \* connections whose send_text of the current pass returned
    passFailed,       \* connections whose send_text of the current pass raised
    passPayloads,     \* the json.dumps(message) texts written in the current pass
    passMutated,      \* state.clients was appended to or removed from during the iteration
    passes,           \* publish passes started (capped at 1: none / some)
    passInstants,     \* the zone health and last event that held at some instant of the pass
    firstEnv,         \* type of the first envelope written to each connection
    nInit,            \* init envelopes written to each connection
    initEnv,          \* the json.dumps(init_msg) text whose send_text is awaited at line 250
    aiPc,             \* ai_loop: "sleep" (line 144), "dead" (raised)
    score,            \* ai_loop's local score of its last scoring (0 before the first)
    fits,             \* detection cycles that refitted and scored
    appended,         \* every event appended to state.anomalies, in append order
    model,            \* state.model: the matrix of its last fit (none before the first)
    latest,           \* ai_loop's local latest: the row it scored last
    now,              \* the event loop's clock, in seconds
    simDue,           \* when the sleep of simulate_sensors ends
    aiDue,            \* when the sleep of ai_loop ends
    temps,            \* simulate_sensors' local temps, in halves of a degree
    pressure,         \* simulate_sensors' local pressure, in twentieths of a MPa
    spiked,           \* the channel the last tick injected a spike into, or "none"
    wasSpiked,        \* the same of the tick before the last
    sensed,           \* state.sensors of temperature and pressure: value and status
    call,             \* a function applied on its own: its arguments and its result
    chan              \* one channel followed on its own: its value, its status, the spike

engineVars == <<sensors, anomalies, twin_state, history, is_model_fitted, data_count, cycles>>
simVars == <<simPc, message, simIdx, simCur, disconnected>>
passVars == <<passStart, passMembers, passIssued, passDelivered, passFailed, passPayloads,
              passMutated, passes, passInstants>>
connVars == <<hpc, link, firstEnv, nInit, initEnv>>
aiVars == <<aiPc, score, fits, appended, model, latest>>
clockVars == <<now, simDue, aiDue>>
valueVars == <<temps, pressure, spiked, wasSpiked, sensed, call, chan>>
vars == <<engineVars, simVars, passVars, connVars, clients, aiVars, clockVars, valueVars>>

\* ------------------------------------------------------------ helpers
Contains(s, x) == \E i \in 1..Len(s) : s[i] = x

Range(s) == {s[i] : i \in 1..Len(s)}

\* list.remove(x): drops the first occurrence (the caller checks x is in s)
ListRemove(s, x) ==
    LET k == CHOOSE i \in 1..Len(s) : s[i] = x /\ \A j \in 1..(i - 1) : s[j] # x
    IN  [i \in 1..(Len(s) - 1) |-> IF i < k THEN s[i] ELSE s[i + 1]]

\* state.anomalies[-1:]
LastSlice(s) == IF s = <<>> THEN <<>> ELSE <<s[Len(s)]>>

\* json.dumps(m): the twin_state entry is the live state.twin_state dict
json_dumps(m) ==
    [type |-> m.type, payload |-> m.payload, twin_state |-> twin_state,
     anomalies |-> m.anomalies]

NoMessage == [type |-> "none", payload |-> <<>>, anomalies |-> <<>>]

\* no text is being written
NoText == [type |-> "none", payload |-> <<>>, twin_state |-> [core |-> "none"], anomalies |-> <<>>]

\* what one instant shows of the detector's writes (lines 192-200): the zone
\* health and the last event of the log
Instant == [twin_state |-> twin_state, anomalies |-> LastSlice(anomalies)]

\* ------------------------------------------------------------- values
\* The values of the two channels a spike can be injected into, at the grain of
\* their noise amplitudes: the temperature in halves of a degree (noise 0.5) and
\* the pressure in twentieths of a MPa (noise 0.05).  start: lines 81-82;
\* min_val, max_val, noise: lines 91-92; spike: lines 101, 103; high, low: lines
\* 107-108.  A value of this grain has at most two decimals, so the round(value, 2)
\* of line 137 returns it.
Config ==
    [temperature |-> [start |-> 730, min_val |-> 700, max_val |-> 760, noise |-> 1,
                      spike |-> 60, high |-> 750, low |-> 710],
     pressure    |-> [start |-> 44, min_val |-> 40, max_val |-> 48, noise |-> 1,
                      spike |-> 6, high |-> 47, low |-> 41]]

WalkChannels == DOMAIN Config

\* The three channels no spike is injected into, at the grain of their noise
\* amplitudes: the pH in twentieths (noise 0.05), the flow rate in units (noise
\* 2.0) and the vibration in halves (noise 0.5).  start: lines 83-85; min_val,
\* max_val, noise: lines 93-95; high, low: lines 109-111.
Steady ==
    [ph        |-> [start |-> 140, min_val |-> 136, max_val |-> 144, noise |-> 1,
                    high |-> 143, low |-> 137],
     flowRate  |-> [start |-> 135, min_val |-> 120, max_val |-> 150, noise |-> 2,
                    high |-> 145, low |-> 125],
     vibration |-> [start |-> 4, min_val |-> 0, max_val |-> 20, noise |-> 1,
                    high |-> 16, low |-> 0]]

ChannelConfig(id) == IF id \in WalkChannels THEN Config[id] ELSE Steady[id]

\* random.uniform(-noise, noise), line 75: its two ends and its middle
Draws(noise) == {0 - noise, 0, noise}

\* min(a, b) and max(a, b) of Python on two numbers
py_min(a, b) == IF b < a THEN b ELSE a

py_max(a, b) == IF b > a THEN b ELSE a

\* generate_sensor_value that returns the perturbed value as it is
generate_sensor_value_unclamped(current, min_val, max_val, change) == current + change

\* generate_sensor_value with the lower limit only
generate_sensor_value_no_ceiling(current, min_val, max_val, change) ==
    py_max(min_val, current + change)

\* lines 74-77, change being the draw of line 75
generate_sensor_value(current, min_val, max_val, change) ==
    LET new_val == current + change
    IN  py_max(min_val, py_min(new_val, max_val))

\* status_of with no margin between warning and critical
status_of_no_margin(value, high_thresh, low_thresh) ==
    IF value > high_thresh \/ value < low_thresh THEN "critical" ELSE "normal"

\* lines 131-135: the status update_sensor gives a value
status_of(value, high_thresh, low_thresh) ==
    IF value > high_thresh \/ value < low_thresh
    THEN IF 100 * value > 105 * high_thresh \/ 100 * value < 95 * low_thresh
         THEN "critical"
         ELSE "warning"
    ELSE "normal"

\* lines 99-103: the offset added to the channel the injection hits
inject(ch, value, hit) == IF hit = ch THEN value + Config[ch].spike ELSE value

NoCall == [fn |-> "none"]

NoChan == [id |-> "none"]

\* the applications of generate_sensor_value and of the classification that
\* FunctionSpec starts from
GsvCalls ==
    {[fn |-> "generate_sensor_value", current |-> c, min_val |-> lo, max_val |-> hi,
      noise |-> n, done |-> FALSE, out |-> 0] :
        c \in (0 - ClampSpan - NoiseMax)..(ClampSpan + NoiseMax),
        lo \in (0 - ClampSpan)..ClampSpan, hi \in (0 - ClampSpan)..ClampSpan, n \in 0..NoiseMax}

Thresholds == {t \in (0 - StatusSpan)..StatusSpan : t % 20 = 0}

StatusCalls ==
    {[fn |-> "update_sensor", id |-> "none", value |-> v, high_thresh |-> h, low_thresh |-> l,
      done |-> FALSE, status |-> "none", stored |-> 0] :
        v \in (0 - StatusSpan)..StatusSpan, h \in Thresholds, l \in Thresholds}

\* The pressure and the pH in thousandths, a grain finer than the two decimals
\* a reading keeps: limits of lines 92-93, spike of line 103, thresholds of
\* lines 108-109.
Fine ==
    [pressure |-> [min_val |-> 2000, max_val |-> 2400, spike |-> 300,
                   high |-> 2350, low |-> 2050],
     ph       |-> [min_val |-> 6800, max_val |-> 7200, spike |-> 0,
                   high |-> 7150, low |-> 6850]]

\* the calls update_sensor(id, value, unit, high, low) of lines 108-109 with
\* every value the channel can have
ReadingCalls ==
    {[fn |-> "update_sensor", id |-> c[1], value |-> c[2], high_thresh |-> Fine[c[1]].high,
      low_thresh |-> Fine[c[1]].low, done |-> FALSE, status |-> "none", stored |-> 0] :
        c \in UNION {{<<id, v>> : v \in Fine[id].min_val..(Fine[id].max_val + Fine[id].spike)} :
                        id \in DOMAIN Fine}}

\* line 137, round(value, 2) on a value in thousandths: the nearest multiple of
\* a hundredth; halfway between two, the one the binary value of the float is
\* nearer to, which is either
py_round2(v) == {r \in (v - 5)..(v + 5) : r % 10 = 0}

\* ------------------------------------------------------------ initial
\* the engine when its two tasks have been created
Started ==
    /\ sensors = <<>>
    /\ anomalies = <<>>
    /\ twin_state = [core |-> "normal"]
    /\ clients = <<>>
    /\ history = [ch \in ChannelSet |-> <<>>]
    /\ is_model_fitted = FALSE
    /\ data_count = 0
    /\ simPc = "sleep"
    /\ message = NoMessage
    /\ simIdx = 0
    /\ simCur = NoConn
    /\ disconnected = <<>>
    /\ hpc = [c \in Conns |-> "idle"]
    /\ link = [c \in Conns |-> "up"]
    /\ cycles = 0
    /\ passStart = <<>>
    /\ passMembers = {}
    /\ passIssued = [c \in Conns |-> 0]
    /\ passDelivered = {}
    /\ passFailed = {}
    /\ passPayloads = {}
    /\ passMutated = FALSE
    /\ passes = 0
    /\ passInstants = {}
    /\ firstEnv = [c \in Conns |-> "none"]
    /\ nInit = [c \in Conns |-> 0]
    /\ initEnv = [c \in Conns |-> NoText]
    /\ aiPc = "sleep"
    /\ score = 0
    /\ fits = 0
    /\ appended = <<>>
    /\ model = <<>>
    /\ latest = <<>>
    /\ now = 0
    /\ simDue = TickPeriod
    /\ aiDue = DetectPeriod
    /\ temps = Config.temperature.start
    /\ pressure = Config.pressure.start
    /\ spiked = "none"
    /\ wasSpiked = "none"
    /\ sensed = <<>>

Init == Started /\ call = NoCall /\ chan = NoChan

\* ------------------------------------------------- simulation, publish
\* update_sensor: state.sensors[id] = SensorData(...); a dict keeps the place
\* of a key it already holds and puts a new key last
update_sensor(S, id, value) ==
    LET r == [id |-> id, value |-> value]
    IN  IF \E i \in 1..Len(S) : S[i].id = id
        THEN [i \in 1..Len(S) |-> IF S[i].id = id THEN r ELSE S[i]]
        ELSE Append(S, r)

\* update_all that stops after the first channel
update_all_first_only(S, ids, value) ==
    IF ids = <<>> THEN S ELSE update_sensor(S, Head(ids), value)

RECURSIVE update_all(_, _, _)
\* lines 107-111: update_sensor for each channel in turn
update_all(S, ids, value) ==
    IF ids = <<>> THEN S
    ELSE update_all(update_sensor(S, Head(ids), value), Tail(ids), value)

\* history_append that drops the newest value of a window over the size
history_append_drops_newest(H, value) ==
    LET A == [ch \in ChannelSet |-> Append(H[ch], value)]
    IN  [ch \in ChannelSet |-> IF Len(A[ch]) > WindowSize THEN SubSeq(A[ch], 1, WindowSize) ELSE A[ch]]

\* history_append that never pops
history_append_never_pops(H, value) == [ch \in ChannelSet |-> Append(H[ch], value)]

\* lines 114-123: append to every window, then pop(0) where it is over the size
history_append(H, value) ==
    LET A == [ch \in ChannelSet |-> Append(H[ch], value)]
    IN  [ch \in ChannelSet |-> IF Len(A[ch]) > WindowSize THEN Tail(A[ch]) ELSE A[ch]]

RECURSIVE prune(_, _)
\* lines 222-223: state.clients.remove(client) for each client of disconnected;
\* remove raises ValueError for a client the list no longer holds
prune(cs, ds) ==
    IF ds = <<>> THEN [clients |-> cs, raised |-> FALSE]
    ELSE IF ~Contains(cs, Head(ds)) THEN [clients |-> cs, raised |-> TRUE]
    ELSE prune(ListRemove(cs, Head(ds)), Tail(ds))

\* on_send_error with the failing client not recorded
on_send_error_forgets(ds, c) == ds

\* line 220: except: disconnected.append(client)
on_send_error(ds, c) == Append(ds, c)

\* lines 216-223: the for loop asks its iterator for the next client (index i of
\* the list as it is now) and calls send_text on it, awaiting at line 218; when
\* the iterator is exhausted the clients of disconnected are removed
broadcast_loop(i, ds, m, issued, payloads) ==
    IF i < Len(clients)
    THEN LET c == clients[i + 1] IN
         /\ simPc' = "send"
         /\ simCur' = c
         /\ simIdx' = i + 1
         /\ disconnected' = ds
         /\ message' = m
         /\ clients' = clients
         /\ passIssued' = [issued EXCEPT ![c] = @ + 1]
         /\ passPayloads' = payloads \cup {json_dumps(m)}
         /\ firstEnv' = [firstEnv EXCEPT ![c] = IF @ = "none" THEN m.type ELSE @]
    ELSE LET r == prune(clients, ds) IN
         /\ simPc' = IF r.raised THEN "dead" ELSE "sleep"
         /\ simCur' = NoConn
         /\ simIdx' = 0
         /\ disconnected' = <<>>
         /\ message' = NoMessage
         /\ clients' = r.clients
         /\ passIssued' = issued
         /\ passPayloads' = payloads
         /\ firstEnv' = firstEnv

\* sensor_update_msg with the whole log for its anomalies
sensor_update_msg_whole_log(S) ==
    [type |-> "sensor_update", payload |-> S, anomalies |-> anomalies]

\* lines 206-213: the message of a pass, on the sensors S of this tick
sensor_update_msg(S) ==
    [type |-> "sensor_update", payload |-> S, anomalies |-> LastSlice(anomalies)]

\* lines 202-215: broadcast_state up to its loop, on the sensors S of this tick
broadcast_state(S) ==
    IF clients = <<>>
    THEN /\ UNCHANGED <<simVars, clients, firstEnv>>
         /\ passStart' = <<>>
         /\ passMembers' = {}
         /\ passIssued' = [c \in Conns |-> 0]
         /\ passPayloads' = {}
         /\ passInstants' = {}
         /\ passes' = passes
    ELSE /\ passStart' = clients
         /\ passMembers' = Range(clients)
         /\ passes' = 1
         /\ passInstants' = {Instant}
         /\ broadcast_loop(0, <<>>, sensor_update_msg(S), [c \in Conns |-> 0], {})

\* lines 88-128: one tick, from the sleep to the first await of the publish pass
simulate_sensors ==
    /\ simPc = "sleep"
    /\ LET n == data_count + 1
           S == update_all(sensors, Channels, n)
       IN  /\ sensors' = S
           /\ history' = history_append(history, n)
           /\ data_count' = n
           /\ broadcast_state(S)
    /\ passDelivered' = {}
    /\ passFailed' = {}
    /\ passMutated' = FALSE
    /\ UNCHANGED <<anomalies, twin_state, is_model_fitted, cycles, hpc, link, nInit, initEnv, aiVars,
                   valueVars>>

\* line 218: the awaited send_text returns; when the pass returns with it, the
\* sleep of line 88 starts
send_returns ==
    /\ simPc = "send"
    /\ link[simCur] = "up"
    /\ passDelivered' = passDelivered \cup {simCur}
    /\ broadcast_loop(simIdx, disconnected, message, passIssued, passPayloads)
    /\ simDue' = IF simPc' = "sleep" THEN now + TickPeriod ELSE simDue
    /\ UNCHANGED <<engineVars, passStart, passMembers, passFailed, passMutated, passes,
                   passInstants, hpc, link, nInit, initEnv, aiVars, now, aiDue, valueVars>>

\* lines 219-220: the awaited send_text raises
send_raises ==
    /\ simPc = "send"
    /\ link[simCur] = "down"
    /\ passFailed' = passFailed \cup {simCur}
    /\ broadcast_loop(simIdx, on_send_error(disconnected, simCur), message, passIssued, passPayloads)
    /\ simDue' = IF simPc' = "sleep" THEN now + TickPeriod ELSE simDue
    /\ UNCHANGED <<engineVars, passStart, passMembers, passDelivered, passMutated, passes,
                   passInstants, hpc, link, nInit, initEnv, aiVars, now, aiDue, valueVars>>

\* ---------------------------------------------------------- detection
\* warming_up with no floor
warming_up_never == FALSE

\* warming_up with a floor one sample lower
warming_up_one_short ==
    data_count + 1 < WarmupFloor \/ Len(history["temperature"]) + 1 < WarmupFloor

\* lines 147-165: fewer samples than a fit needs
warming_up == data_count < WarmupFloor \/ Len(history["temperature"]) < WarmupFloor

\* AnomalyEvent with the score itself for its severity
AnomalyEvent_signed(sc) == [zone |-> "core", severity |-> sc, timestamp |-> data_count]

\* AnomalyEvent stamped with the number of refits
AnomalyEvent_refit_stamp(sc) ==
    [zone |-> "core", severity |-> IF sc < 0 THEN -sc ELSE sc, timestamp |-> fits]

\* line 194: AnomalyEvent(zone="core", severity=abs(score), timestamp=state.data_count)
AnomalyEvent(sc) ==
    [zone |-> "core", severity |-> IF sc < 0 THEN -sc ELSE sc, timestamp |-> data_count]

\* keep_last dropping the newest event
keep_last_oldest(A) == IF Len(A) > LogCap THEN SubSeq(A, 1, Len(A) - 1) ELSE A

\* keep_last dropping the two oldest events
keep_last_two_dropped(A) == IF Len(A) > LogCap THEN Tail(Tail(A)) ELSE A

\* lines 197-198: if len(state.anomalies) > 10: state.anomalies.pop(0)
keep_last(A) == IF Len(A) > LogCap THEN Tail(A) ELSE A

\* lines 163-177: one row for each index of the temperature window, holding the
\* values the five windows have at that index
data_matrix ==
    [i \in 1..Len(history["temperature"]) |->
        [j \in 1..Len(Channels) |-> history[Channels[j]][i]]]

\* latest_row taking the first row
first_row(X) == IF X = <<>> THEN <<>> ELSE X[1]

\* line 184: latest = X[-1], a row of X; <<>> stands for no row
latest_row(X) == IF X = <<>> THEN <<>> ELSE X[Len(X)]

\* the decision with the else branch of line 200 left out
decide_keeps_health(sc) ==
    IF sc < Threshold
    THEN [twin_state |-> [twin_state EXCEPT !.core = "critical"],
          anomalies |-> keep_last(Append(anomalies, AnomalyEvent(sc)))]
    ELSE [twin_state |-> twin_state, anomalies |-> anomalies]

\* lines 190-200: the decision on the score of the latest row
decide(sc) ==
    IF sc < Threshold
    THEN [twin_state |-> [twin_state EXCEPT !.core = "critical"],
          anomalies |-> keep_last(Append(anomalies, AnomalyEvent(sc)))]
    ELSE [twin_state |-> [twin_state EXCEPT !.core = "normal"], anomalies |-> anomalies]

\* lines 144-200: one detection cycle, from one sleep to the next
ai_loop(sc) ==
    /\ aiPc = "sleep"
    /\ cycles' = IF cycles < MaxCycles THEN cycles + 1 ELSE cycles
    /\ IF warming_up
       THEN UNCHANGED <<is_model_fitted, twin_state, anomalies, score, fits, appended, passInstants,
                        model, latest>>
       ELSE /\ model' = data_matrix
            /\ is_model_fitted' = TRUE
            /\ latest' = latest_row(data_matrix)
            /\ score' = sc
            /\ fits' = fits + 1
            /\ twin_state' = decide(sc).twin_state
            /\ anomalies' = decide(sc).anomalies
            /\ appended' = IF sc < Threshold THEN Append(appended, AnomalyEvent(sc)) ELSE appended
            /\ passInstants' = IF simPc = "send" THEN passInstants \cup {Instant'} ELSE passInstants
    /\ aiPc' = aiPc
    /\ UNCHANGED <<sensors, history, data_count, simVars, passStart, passMembers, passIssued,
                   passDelivered, passFailed, passPayloads, passMutated, passes, connVars, clients,
                   valueVars>>

\* lines 180-186 with no handler around them: state.model.fit(X) raises, or it
\* returns and decision_function or predict raises; the exception ends ai_loop
ai_loop_raises ==
    /\ aiPc = "sleep"
    /\ ~warming_up
    /\ \E fitted \in BOOLEAN :
          /\ is_model_fitted' = (is_model_fitted \/ fitted)
          /\ model' = IF fitted THEN data_matrix ELSE model
          /\ latest' = IF fitted THEN latest_row(data_matrix) ELSE latest
    /\ aiPc' = "dead"
    /\ cycles' = IF cycles < MaxCycles THEN cycles + 1 ELSE cycles
    /\ UNCHANGED <<sensors, anomalies, twin_state, history, data_count, score, fits, appended,
                   simVars, passVars, connVars, clients, valueVars>>

\* ------------------------------------------------- connection handler
\* register appending the connection twice
register_twice(cs, c) == Append(Append(cs, c), c)

\* line 241: state.clients.append(websocket)
register(cs, c) == Append(cs, c)

\* websocket_attach with the connection registered and no init envelope written
websocket_attach_without_init(c) ==
    /\ hpc[c] = "idle"
    /\ \A d \in 1..(c - 1) : hpc[d] # "idle"
    /\ clients' = Append(clients, c)
    /\ hpc' = [hpc EXCEPT ![c] = "init"]
    /\ passMutated' = (passMutated \/ simPc = "send")
    /\ UNCHANGED <<engineVars, simVars, passStart, passMembers, passIssued, passDelivered,
                   passFailed, passPayloads, passes, passInstants, link, firstEnv, nInit,
                   initEnv, aiVars, clockVars, valueVars>>

\* init_msg with the last event of the log for its anomalies
init_msg_last_event == [type |-> "init", payload |-> sensors, anomalies |-> LastSlice(anomalies)]

\* lines 244-249: init_msg
init_msg == [type |-> "init", payload |-> sensors, anomalies |-> anomalies]

\* lines 240-250: accept returned; the connection is registered and the init
\* envelope is serialized and handed to send_text, awaited at line 250
websocket_attach(c) ==
    /\ hpc[c] = "idle"
    /\ \A d \in 1..(c - 1) : hpc[d] # "idle"
    /\ clients' = register(clients, c)
    /\ hpc' = [hpc EXCEPT ![c] = "init"]
    /\ firstEnv' = [firstEnv EXCEPT ![c] = IF @ = "none" THEN "init" ELSE @]
    /\ nInit' = [nInit EXCEPT ![c] = @ + 1]
    /\ initEnv' = [initEnv EXCEPT ![c] = json_dumps(init_msg)]
    /\ passMutated' = (passMutated \/ simPc = "send")
    /\ UNCHANGED <<engineVars, simVars, passStart, passMembers, passIssued, passDelivered,
                   passFailed, passPayloads, passes, passInstants, link, aiVars, clockVars, valueVars>>

\* line 250 returns: the handler enters its receive loop (lines 252-254)
init_returns(c) ==
    /\ hpc[c] = "init"
    /\ link[c] = "up"
    /\ hpc' = [hpc EXCEPT ![c] = "recv"]
    /\ initEnv' = [initEnv EXCEPT ![c] = NoText]
    /\ UNCHANGED <<engineVars, simVars, passVars, link, firstEnv, nInit, clients, aiVars, clockVars, valueVars>>

\* line 250 raises: outside the try, the handler ends with the exception
init_raises(c) ==
    /\ hpc[c] = "init"
    /\ link[c] = "down"
    /\ hpc' = [hpc EXCEPT ![c] = "init_error"]
    /\ initEnv' = [initEnv EXCEPT ![c] = NoText]
    /\ UNCHANGED <<engineVars, simVars, passVars, link, firstEnv, nInit, clients, aiVars, clockVars, valueVars>>

\* lines 254-256: receive_text raises WebSocketDisconnect; state.clients.remove
\* raises ValueError when the list no longer holds the connection
websocket_disconnect(c) ==
    /\ hpc[c] = "recv"
    /\ link[c] = "down"
    /\ IF Contains(clients, c)
       THEN /\ clients' = ListRemove(clients, c)
            /\ hpc' = [hpc EXCEPT ![c] = "done"]
            /\ passMembers' = IF simPc = "send" THEN passMembers \ {c} ELSE passMembers
            /\ passMutated' = (passMutated \/ simPc = "send")
       ELSE /\ clients' = clients
            /\ hpc' = [hpc EXCEPT ![c] = "detach_error"]
            /\ UNCHANGED <<passMembers, passMutated>>
    /\ UNCHANGED <<engineVars, simVars, passStart, passIssued, passDelivered, passFailed,
                   passPayloads, passes, passInstants, link, firstEnv, nInit, initEnv,
                   aiVars, clockVars, valueVars>>

\* -------------------------------------------------------- environment
Live(c) == hpc[c] \in {"init", "recv"} \/ Contains(clients, c)

\* the peer goes away: writes raise, receive_text raises WebSocketDisconnect
LinkDrop(c) ==
    /\ Live(c)
    /\ link[c] \in {"up", "stalled"}
    /\ link' = [link EXCEPT ![c] = "down"]
    /\ UNCHANGED <<engineVars, simVars, passVars, hpc, firstEnv, nInit, initEnv, clients,
                   aiVars, clockVars, valueVars>>

\* the peer stops reading: a write to it does not complete
LinkStall(c) ==
    /\ Live(c)
    /\ link[c] = "up"
    /\ link' = [link EXCEPT ![c] = "stalled"]
    /\ UNCHANGED <<engineVars, simVars, passVars, hpc, firstEnv, nInit, initEnv, clients,
                   aiVars, clockVars, valueVars>>

\* ------------------------------------------------------ specification
\* In a specification without the clock a sleep ends at any moment.
TickUpTo(n) == data_count < n /\ simulate_sensors /\ UNCHANGED clockVars

Detect == cycles < MaxCycles /\ (\E sc \in Scores : ai_loop(sc)) /\ UNCHANGED clockVars

\* connections are numbered in the order in which they arrive
AttachUpTo(n) == \E c \in 1..n : websocket_attach(c)

\* the steps of the handler coroutine of connection c after its attach
websocket_endpoint(c) == init_returns(c) \/ init_raises(c) \/ websocket_disconnect(c)

Handler == \E c \in Conns : websocket_endpoint(c)

Drop == \E c \in Conns : LinkDrop(c)

Stall == \E c \in Conns : LinkStall(c)

\* the steps of the simulation coroutine
SimTask(n) == TickUpTo(n) \/ send_returns \/ send_raises

\* The whole engine with SpecConns subscribers, which arrive once the warm-up
\* floor is reached, when the detector starts to write (subscribers that arrive
\* in the first ticks are FanSpec's).
AttachLate(n) == data_count >= WarmupFloor /\ AttachUpTo(n)

Next == SimTask(MaxTicks) \/ Detect \/ AttachLate(SpecConns) \/ Handler \/ Drop

Spec == Init /\ [][Next]_vars

\* The publish pass and the connection handlers with MaxConns subscribers, in
\* the first ticks and with no detection cycle: a detection cycle writes
\* twin_state, anomalies and is_model_fitted only, which decide the text of a
\* payload and nothing else of a pass or of a handler.
FanNext == SimTask(FewTicks) \/ AttachUpTo(MaxConns) \/ Handler \/ Drop

FanSpec == Init /\ [][FanNext]_vars

\* The engine with subscribers that may stop reading, and the scheduling the event
\* loop guarantees: a coroutine that is ready to run is run.  The arrival, the loss
\* and the stalling of a subscriber are the environment's and have no fairness.
DetectAlways == (\E sc \in Scores : ai_loop(sc)) /\ UNCHANGED clockVars

StallNext == SimTask(FewTicks) \/ DetectAlways \/ AttachUpTo(StallConns) \/ Handler \/ Drop \/ Stall

StallSpec ==
    /\ Init /\ [][StallNext]_vars
    /\ WF_vars(SimTask(FewTicks))
    /\ WF_vars(DetectAlways)
    /\ \A c \in Conns : WF_vars(websocket_endpoint(c))

\* The whole engine as in Spec, with StallConns subscribers; the detection cycles
\* are those past the warm-up gate, which write, with one score on each side of
\* the threshold of line 190.
Verdicts == {-30, 10}

DetectLate ==
    /\ data_count >= WarmupFloor
    /\ cycles < MaxCycles
    /\ \E sc \in Verdicts : ai_loop(sc)
    /\ UNCHANGED clockVars

SoloNext == SimTask(MaxTicks) \/ DetectLate \/ AttachLate(StallConns) \/ Handler \/ Drop

SoloSpec == Init /\ [][SoloNext]_vars

\* The simulation and the detector with no subscriber (broadcast_state returns
\* at line 204), the detector running until it has refitted MaxFits times or
\* a refit or a scoring has raised.
EngineDetect == fits < MaxFits /\ (\E sc \in Scores : ai_loop(sc)) /\ UNCHANGED clockVars

FitRaises == ai_loop_raises /\ UNCHANGED clockVars

EngineNext == TickUpTo(MaxTicks) \/ EngineDetect \/ FitRaises

EngineSpec == Init /\ [][EngineNext]_vars

\* The simulation and the detector with no subscriber and with the clock: both
\* tasks are created at time 0 (lines 235-236), a sleep ends when the clock
\* reaches its deadline, the code between two sleeps takes no time, and of two
\* tasks whose sleeps end at the same time either may run first.
tick_when_due(n) ==
    /\ data_count < n
    /\ now = simDue
    /\ simulate_sensors
    /\ simDue' = IF simPc' = "sleep" THEN now + TickPeriod ELSE simDue
    /\ UNCHANGED <<now, aiDue>>

cycle_when_due ==
    /\ now = aiDue
    /\ \E sc \in Scores : ai_loop(sc)
    /\ aiDue' = now + DetectPeriod
    /\ UNCHANGED <<now, simDue>>

\* no sleep ends now: a task that is not at its sleep has no deadline
time_passes ==
    /\ simPc = "sleep" => now < simDue
    /\ aiPc = "sleep" => now < aiDue
    /\ now' = now + 1
    /\ UNCHANGED <<engineVars, simVars, passVars, connVars, clients, aiVars, simDue, aiDue,
                   valueVars>>

ClockNext == tick_when_due(ClockTicks) \/ cycle_when_due \/ time_passes

ClockSpec == Init /\ [][ClockNext]_vars

\* The values of one tick after another (lines 90-111 and 130-137) for the two
\* channels a spike can be injected into; the three others take the path of a
\* channel that is not hit.
walk_tick ==
    /\ \E dt \in Draws(Config.temperature.noise), dp \in Draws(Config.pressure.noise),
          hit \in WalkChannels \cup {"none"} :
          LET t == inject("temperature",
                          generate_sensor_value(temps, Config.temperature.min_val,
                                                Config.temperature.max_val, dt), hit)
              p == inject("pressure",
                          generate_sensor_value(pressure, Config.pressure.min_val,
                                                Config.pressure.max_val, dp), hit)
          IN  /\ temps' = t
              /\ pressure' = p
              /\ sensed' = [temperature |->
                               [value |-> t,
                                status |-> status_of(t, Config.temperature.high,
                                                     Config.temperature.low)],
                            pressure |->
                               [value |-> p,
                                status |-> status_of(p, Config.pressure.high,
                                                     Config.pressure.low)]]
              /\ spiked' = hit
    /\ wasSpiked' = spiked
    /\ UNCHANGED <<engineVars, simVars, passVars, connVars, clients, aiVars, clockVars, call,
                   chan>>

WalkNext == walk_tick

WalkSpec == Init /\ [][WalkNext]_vars

\* One tick after another (lines 90-111 and 130-137) as it acts on one channel,
\* any of the five: the walk of the channel's own value, the spike when the
\* injection hits the channel, the status of the result.
ChannelInit ==
    /\ Started
    /\ call = NoCall
    /\ chan \in {[id |-> c, value |-> ChannelConfig(c).start, status |-> "none", hit |-> "none"] :
                    c \in ChannelSet}

walk_channel ==
    /\ LET cfg == ChannelConfig(chan.id)
       IN  \E change \in Draws(cfg.noise), hit \in WalkChannels \cup {"none"} :
              LET v == inject(chan.id,
                              generate_sensor_value(chan.value, cfg.min_val, cfg.max_val, change),
                              hit)
              IN  chan' = [id |-> chan.id, value |-> v,
                           status |-> status_of(v, cfg.high, cfg.low), hit |-> hit]
    /\ UNCHANGED <<engineVars, simVars, passVars, connVars, clients, aiVars, clockVars,
                   temps, pressure, spiked, wasSpiked, sensed, call>>

ChannelNext == walk_channel

ChannelSpec == ChannelInit /\ [][ChannelNext]_vars

\* The engine with the clock and with StallConns subscribers, which arrive once
\* the warm-up is over and may stop reading, followed up to the time Horizon.
time_passes_until(t) == now < t /\ time_passes

DelayNext ==
    \/ tick_when_due(MaxTicks) \/ send_returns \/ send_raises
    \/ cycle_when_due
    \/ time_passes_until(Horizon)
    \/ AttachLate(StallConns) \/ Handler \/ Drop \/ Stall

DelaySpec == Init /\ [][DelayNext]_vars

\* generate_sensor_value and the classification of update_sensor, each applied
\* once to arguments drawn from GsvCalls and StatusCalls.
FunctionInit ==
    Started /\ call \in GsvCalls \cup StatusCalls \cup ReadingCalls /\ chan = NoChan

apply_generate_sensor_value ==
    /\ call.fn = "generate_sensor_value"
    /\ ~call.done
    /\ \E change \in (0 - call.noise)..call.noise :
          call' = [call EXCEPT !.done = TRUE,
                               !.out = generate_sensor_value(call.current, call.min_val,
                                                             call.max_val, change)]
    /\ UNCHANGED <<engineVars, simVars, passVars, connVars, clients, aiVars, clockVars,
                   temps, pressure, spiked, wasSpiked, sensed, chan>>

apply_update_sensor ==
    /\ call.fn = "update_sensor"
    /\ ~call.done
    /\ \E r \in py_round2(call.value) :
          call' = [call EXCEPT !.done = TRUE,
                               !.status = status_of(call.value, call.high_thresh,
                                                    call.low_thresh),
                               !.stored = r]
    /\ UNCHANGED <<engineVars, simVars, passVars, connVars, clients, aiVars, clockVars,
                   temps, pressure, spiked, wasSpiked, sensed, chan>>

FunctionNext == apply_generate_sensor_value \/ apply_update_sensor

FunctionSpec == FunctionInit /\ [][FunctionNext]_vars

\* ============================================================= claims
PassOver == passes = 1 /\ simPc # "send"

PassFinishes == simPc = "send" /\ simPc' # "send"

\* C1: when a publish pass that started with three registered connections ends,
\* no attach or detach having happened during it and exactly one write having
\* raised, it returns normally, the two other connections were each written to
\* once and their writes returned, and the connection list is the list of the
\* start without the failing connection.
C1_FanOutIsolation ==
    [][(/\ PassFinishes
        /\ Len(passStart) = 3
        /\ ~passMutated
        /\ Cardinality(passFailed') = 1)
       => /\ simPc' = "sleep"
          /\ passDelivered' = Range(passStart) \ passFailed'
          /\ \A c \in Range(passStart) : passIssued'[c] = 1
          /\ clients' = SelectSeq(passStart, LAMBDA c : c \notin passFailed')]_vars

C1_Witness ==
    /\ PassOver /\ simPc = "sleep"
    /\ Len(passStart) = 3
    /\ ~passMutated
    /\ Cardinality(passFailed) = 1
    /\ Cardinality(passDelivered) = 2
    /\ Len(clients) = 2

\* C2: a publish pass never raises to the simulation loop: the simulation task
\* is never ended by an exception of broadcast_state.
C2_PublishNeverRaises == simPc # "dead"

\* C3: all the payloads written within one publish pass are the same text.
C3_SamePayloadInPass == Cardinality(passPayloads) <= 1

\* C4: when a publish pass has returned, every connection that was in the
\* connection list from the start of the pass to the end of its iteration has
\* been written to exactly once in that pass.
C4_EveryMemberSentOnce ==
    (PassOver /\ simPc = "sleep") => \A c \in passMembers : passIssued[c] = 1

\* C5: no step taken while a publish pass is iterating over the connection list
\* changes that list.
C5_NoMutationWhileIterating ==
    [][(simPc = "send" /\ simPc' = "send") => clients' = clients]_vars

\* C6: while a subscriber write of the publish pass is pending, the simulation
\* tick can still occur.
C6_TickNotStalledByWrite ==
    (simPc = "send" /\ data_count < MaxTicks) => ENABLED simulate_sensors

\* C7: a connection on which a write of the publish pass is pending while the
\* subscriber has stalled is eventually no longer in the connection list (the
\* pass that waits on it is suspended whatever the tick bound).
C7_StalledEventuallyDetached ==
    \A c \in Conns :
        [](((simPc = "send" /\ simCur = c /\ link[c] = "stalled"))
            => <>(~Contains(clients, c)))

\* C8: the detach of a connection handler never raises, also when the
\* connection is no longer in the connection list.
C8_DetachIdempotent == \A c \in Conns : hpc[c] # "detach_error"

\* C9: a connection a write to which has raised is not in the connection list
\* once the operation that wrote has finished: the handler for the init write,
\* the publish pass for a sensor_update write.
C9_FailedWriteDetaches ==
    /\ \A c \in Conns : hpc[c] = "init_error" => ~Contains(clients, c)
    /\ PassOver => \A c \in passFailed : ~Contains(clients, c)

\* C10: the first envelope written to a connection is an init envelope, a
\* connection that has attached has been written exactly one init envelope,
\* and a sensor_update is written only to a connection that has been written
\* its init envelope.
C10_InitFirstAndOnce ==
    \A c \in Conns :
        /\ firstEnv[c] \in {"none", "init"}
        /\ nInit[c] <= 1
        /\ (hpc[c] # "idle" \/ Contains(clients, c)) => nInit[c] = 1
        /\ passIssued[c] > 0 => nInit[c] = 1

C10_Witness ==
    \E c \in Conns :
        /\ ~Contains(passStart, c)
        /\ passMutated
        /\ passIssued[c] = 1
        /\ firstEnv[c] = "init"
        /\ nInit[c] = 1

\* the readings of a payload are one for each configured channel
OnePerChannel(P) ==
    /\ Len(P) = Len(Channels)
    /\ {P[i].id : i \in 1..Len(P)} = ChannelSet

\* the readings of a payload are all of one tick
SameTick(P) == \A i, j \in 1..Len(P) : P[i].value = P[j].value

Min(a, b) == IF a < b THEN a ELSE b

\* the last n elements of s
LastN(s, n) == SubSeq(s, Len(s) - n + 1, Len(s))

\* C11: when a subscriber attaches after the first tick has completed, the init
\* envelope written to it has one reading for each of the five configured
\* channels and its anomalies list is the whole anomaly log of that moment.
C11_InitSnapshot ==
    [][\A c \in Conns :
          (hpc[c] = "idle" /\ hpc'[c] = "init" /\ data_count >= 1)
          => /\ initEnv'[c].type = "init"
             /\ OnePerChannel(initEnv'[c].payload)
             /\ initEnv'[c].anomalies = anomalies']_vars

C11_Witness ==
    \E c \in Conns :
        /\ hpc[c] = "init"
        /\ initEnv[c].type = "init"
        /\ Len(initEnv[c].payload) = 5
        /\ Len(initEnv[c].anomalies) = 2
        /\ initEnv[c].anomalies[1] # initEnv[c].anomalies[2]

\* C12: the sensor_update message a publish pass builds has for its anomalies
\* the empty list when the anomaly log is empty and otherwise the one event
\* appended last, and for its payload the full reading list; every text written
\* from it carries that payload and those anomalies, and for its twin_state the
\* zone health.
C12_SensorUpdateShape ==
    [][/\ (simPc = "sleep" /\ simPc' = "send")
          => /\ message'.type = "sensor_update"
             /\ message'.payload = sensors'
             /\ OnePerChannel(message'.payload)
             /\ message'.anomalies = (IF anomalies' = <<>> THEN <<>>
                                      ELSE <<anomalies'[Len(anomalies')]>>)
       /\ \A p \in passPayloads' \ passPayloads :
             /\ p.type = "sensor_update"
             /\ p.payload = message'.payload
             /\ p.anomalies = message'.anomalies
             /\ Len(p.anomalies) <= 1
             /\ p.twin_state = twin_state']_vars

C12_Witness ==
    /\ simPc = "send"
    /\ Len(anomalies) = 2
    /\ anomalies[1] # anomalies[2]
    /\ message.anomalies = <<anomalies[2]>>
    /\ \E p \in passPayloads : p.anomalies = <<anomalies[2]>> /\ p.twin_state.core = "critical"

\* C13: the five readings of every envelope built after the first tick, init
\* or sensor_update, are of one tick; and while the sensor_update of tick k is
\* being written, its readings, the last value of every history window and the
\* sample count are all those of tick k.
C13_TickAtomic ==
    /\ \A c \in Conns :
          (hpc[c] = "init" /\ initEnv[c].payload # <<>>)
          => OnePerChannel(initEnv[c].payload) /\ SameTick(initEnv[c].payload)
    /\ \A p \in passPayloads : OnePerChannel(p.payload) /\ SameTick(p.payload)
    /\ simPc = "send"
       => /\ OnePerChannel(message.payload)
          /\ \A i \in 1..Len(message.payload) : message.payload[i].value = data_count
          /\ \A ch \in ChannelSet :
                history[ch] # <<>> /\ history[ch][Len(history[ch])] = data_count

C13_Witness ==
    /\ simPc = "send"
    /\ data_count >= 2
    /\ Len(message.payload) = 5
    /\ \E c \in Conns :
          /\ hpc[c] = "init"
          /\ Len(initEnv[c].payload) = 5
          /\ initEnv[c].payload[1].value < data_count

\* C14: the zone health and the anomalies of every text written in a publish
\* pass are those of one instant of the pass: some instant at which the zone
\* health was the one of the text and the last event of the log the one of the
\* text.
C14_NoTornDetectorUpdate ==
    \A p \in passPayloads :
        [twin_state |-> p.twin_state, anomalies |-> p.anomalies] \in passInstants

\* C15: as long as fewer samples than the warm-up floor have been collected,
\* whatever detection cycles have run, the zone health is the initial one, the
\* anomaly log is empty, the model has not been fitted and the detection task
\* is at its sleep, from which it runs the next cycle.
C15_WarmupGate ==
    data_count < WarmupFloor
    => /\ twin_state = [core |-> "normal"]
       /\ anomalies = <<>>
       /\ appended = <<>>
       /\ ~is_model_fitted
       /\ fits = 0
       /\ aiPc = "sleep"

C15_Witness ==
    /\ cycles >= 2
    /\ data_count = WarmupFloor - 1
    /\ ~is_model_fitted
    /\ twin_state.core = "normal"

\* C16: a detection cycle past the warm-up, whatever the zone health before it:
\* with a score under the threshold it makes the zone health critical and
\* appends to the log one event of zone core, severity |score| and timestamp
\* the sample count; with any other score it makes the zone health normal and
\* leaves the log as it was.
C16_DecisionRule ==
    [][fits' # fits
       => IF score' < Threshold
          THEN LET e == [zone |-> "core",
                         severity |-> IF score' < 0 THEN 0 - score' ELSE score',
                         timestamp |-> data_count]
               IN  /\ twin_state'.core = "critical"
                   /\ appended' = Append(appended, e)
                   /\ \/ anomalies' = Append(anomalies, e)
                      \/ anomalies' = Tail(Append(anomalies, e))
          ELSE /\ twin_state'.core = "normal"
               /\ anomalies' = anomalies
               /\ appended' = appended]_vars

C16_Witness ==
    /\ fits >= 3
    /\ Len(appended) >= 2
    /\ score >= Threshold
    /\ twin_state.core = "normal"
    /\ anomalies = appended

\* C17: the detection task is never ended by an exception of the refit or of
\* the scoring: after a cycle in which one of them raised it is at its sleep
\* again and runs the cycles that follow.
C17_FailureRecoveredLocally == aiPc # "dead"

\* C18: when tick ClockTicks (60) completes, exactly one detection cycle has
\* refitted and scored, whichever of the two tasks ran first at the times at
\* which both were due.
C18_OneCycleByLastTick ==
    [][(data_count # ClockTicks /\ data_count' = ClockTicks) => fits' = 1]_vars

\* C19: the anomaly log holds at most LogCap (10) events, and they are the last
\* min(n, 10) of the n events appended so far, in append order.
C19_LogBound ==
    /\ Len(anomalies) <= LogCap
    /\ anomalies = LastN(appended, Min(Len(appended), LogCap))

C19_Witness ==
    /\ Len(appended) > LogCap
    /\ Len(anomalies) = LogCap
    /\ appended[1] # appended[Len(appended)]
    /\ anomalies[1] = appended[2]
    /\ anomalies[LogCap] = appended[Len(appended)]

\* C20: after n ticks every history window holds the last min(n, 50) of the n
\* values recorded for its channel (the value of tick i is i), in the order in
\* which they were recorded.
C20_WindowEviction ==
    \A ch \in ChannelSet :
        LET m == Min(data_count, WindowSize)
        IN  /\ Len(history[ch]) = m
            /\ \A i \in 1..m : history[ch][i] = data_count - m + i

C20_Witness ==
    /\ data_count = WindowSize + 2
    /\ \A ch \in ChannelSet :
          /\ Len(history[ch]) = WindowSize
          /\ history[ch][1] = 3
          /\ history[ch][WindowSize] = data_count

\* C21: in every state, which is every point at which another coroutine can read
\* the history, the five windows have one same length, which is
\* min(sample count, 50) and is at most 50.
C21_WindowsAligned ==
    /\ \A ch1, ch2 \in ChannelSet : Len(history[ch1]) = Len(history[ch2])
    /\ \A ch \in ChannelSet :
          /\ Len(history[ch]) = Min(data_count, WindowSize)
          /\ Len(history[ch]) <= WindowSize

C21_Witness ==
    /\ data_count > WindowSize
    /\ fits >= 1
    /\ \A ch \in ChannelSet : Len(history[ch]) = WindowSize

Abs(x) == IF x < 0 THEN 0 - x ELSE x

\* C22: for every previous value, every min <= max and every noise amplitude
\* >= 0, the value generate_sensor_value returns lies in [min, max].
C22_Clamped ==
    (call.fn = "generate_sensor_value" /\ call.done /\ call.min_val <= call.max_val)
    => call.min_val <= call.out /\ call.out <= call.max_val

C22_Witness ==
    /\ call.fn = "generate_sensor_value"
    /\ call.done
    /\ call.min_val < call.max_val
    /\ call.noise > 0
    /\ call.current - call.noise > call.max_val
    /\ call.out = call.max_val

\* C23: in a tick that injects a spike into a channel, the value recorded for
\* the channel is the previous value with the perturbation and then the offset
\* added, clamped to [min, max] after that, and its status is the one of that
\* clamped value.
C23_SpikeBeforeClamp ==
    [][\A ch \in WalkChannels :
          spiked' = ch
          => LET cur == IF ch = "temperature" THEN temps ELSE pressure
             IN  \E d \in Draws(Config[ch].noise) :
                    LET v == py_max(Config[ch].min_val,
                                    py_min(cur + d + Config[ch].spike, Config[ch].max_val))
                    IN  /\ sensed'[ch].value = v
                        /\ sensed'[ch].status = status_of(v, Config[ch].high, Config[ch].low)]_vars

\* C24: the status given to a value is critical exactly when the value is over
\* the high threshold by more than 5% of it or under the low threshold by more
\* than 5% of it, warning exactly when it is outside [low, high] without being
\* critical, and normal otherwise.
C24_StatusRule ==
    (call.fn = "update_sensor" /\ call.done /\ call.low_thresh <= call.high_thresh)
    => LET v == call.value
           over == 100 * (v - call.high_thresh) > 5 * Abs(call.high_thresh)
           under == 100 * (call.low_thresh - v) > 5 * Abs(call.low_thresh)
           outside == v > call.high_thresh \/ v < call.low_thresh
       IN  call.status = IF over \/ under THEN "critical"
                         ELSE IF outside THEN "warning" ELSE "normal"

\* C29: in the tick that follows a tick that injected a spike into a channel,
\* when it injects none into that channel, the value recorded for the channel
\* lies in the channel's [min, max].
C29_SpikeTransient ==
    [][\A ch \in WalkChannels :
          (spiked = ch /\ spiked' # ch)
          => /\ Config[ch].min_val <= sensed'[ch].value
             /\ sensed'[ch].value <= Config[ch].max_val]_vars

C29_Witness ==
    /\ wasSpiked = "temperature"
    /\ spiked = "none"
    /\ sensed["temperature"].value = Config.temperature.max_val
    /\ sensed["temperature"].status = "warning"

\* C25: a detection cycle past the warm-up gate fits the model on a matrix of
\* 50 rows of 5 columns in which row i holds the values the five channels have
\* at index i of their windows, all of one tick, the rows being in tick order,
\* and the row it scores is the last one, the row of the tick completed last.
C25_TrainingMatrix ==
    [][fits' # fits
       => /\ Len(model') = WindowSize
          /\ \A i \in 1..Len(model') :
                /\ Len(model'[i]) = Len(Channels)
                /\ \A j \in 1..Len(Channels) :
                      /\ model'[i][j] = history[Channels[j]][i]
                      /\ model'[i][j] = model'[i][1]
          /\ \A i \in 1..(Len(model') - 1) : model'[i][1] < model'[i + 1][1]
          /\ latest' = model'[Len(model')]
          /\ \A j \in 1..Len(Channels) : latest'[j] = data_count]_vars

C25_Witness ==
    /\ fits >= 2
    /\ data_count > WindowSize
    /\ Len(model) = WindowSize
    /\ model[1][1] = data_count - WindowSize + 1
    /\ latest[1] = data_count

\* C26: is_model_fitted is never true with fewer than 50 samples, once true it
\* stays true, and a detection cycle that finds at least 50 samples and goes
\* through makes it true: the first such cycle is the first fit.
C26_WarmingUpThenActive ==
    [][/\ is_model_fitted' => data_count' >= WarmupFloor
       /\ is_model_fitted => is_model_fitted'
       /\ ~is_model_fitted' => fits' = 0
       /\ fits' # fits => is_model_fitted' /\ data_count >= WarmupFloor
       /\ (cycles' # cycles /\ aiPc' = "sleep" /\ data_count >= WarmupFloor)
          => fits' = fits + 1]_vars

C26_Witness ==
    /\ is_model_fitted
    /\ aiPc = "sleep"
    /\ fits = 1
    /\ cycles >= 2
    /\ data_count = WarmupFloor

\* C27: a step of the detection task leaves the readings, the history windows
\* and the sample count as they were; a simulation tick leaves the zone health
\* and the anomaly log as they were; and a step that changes the log appends
\* one event to it, keeps the others as they were and in their order, and drops
\* at most the oldest, which it does only from a full log.
C27_Frames ==
    [][/\ (fits' # fits \/ cycles' # cycles \/ aiPc' # aiPc \/ model' # model)
          => UNCHANGED <<sensors, history, data_count>>
       /\ data_count' # data_count => UNCHANGED <<twin_state, anomalies>>
       /\ anomalies' # anomalies
          => LET kept == SubSeq(anomalies', 1, Len(anomalies') - 1)
             IN  /\ anomalies' # <<>>
                 /\ \/ kept = anomalies
                    \/ Len(anomalies) = LogCap /\ kept = Tail(anomalies)]_vars

C27_Witness ==
    /\ Len(appended) > LogCap
    /\ Len(anomalies) = LogCap
    /\ anomalies[1].timestamp < anomalies[LogCap].timestamp
    /\ anomalies[LogCap].timestamp < data_count
    /\ twin_state.core = "critical"

\* C28: every event appended has a timestamp greater than the timestamp of
\* every event appended before it.
C28_TimestampsIncrease ==
    \A i, j \in 1..Len(appended) : i < j => appended[i].timestamp < appended[j].timestamp

\* C30: the zone health of 'core' is always normal or critical; it is normal as
\* long as no detection cycle has been anomalous; whenever it is critical the
\* log is non-empty and its last event is the one appended by the most recent
\* cycle that took the decision of lines 190-200: that cycle scored below the
\* threshold, and the event carries its score and the sample count it read.
C30_CoreHealth ==
    /\ [](/\ twin_state.core \in {"normal", "critical"}
          /\ appended = <<>> => twin_state.core = "normal"
          /\ twin_state.core = "critical"
             => /\ anomalies # <<>>
                /\ appended # <<>>
                /\ anomalies[Len(anomalies)] = appended[Len(appended)]
                /\ score < Threshold
                /\ anomalies[Len(anomalies)].severity = -score
                /\ anomalies[Len(anomalies)].timestamp <= data_count)
    /\ [][fits' # fits
           => IF twin_state'.core = "critical"
              THEN /\ Len(appended') = Len(appended) + 1
                   /\ anomalies'[Len(anomalies')] = appended'[Len(appended')]
                   /\ anomalies'[Len(anomalies')].timestamp = data_count
              ELSE /\ twin_state'.core = "normal"
                   /\ UNCHANGED <<anomalies, appended>>]_vars

C30_Witness ==
    /\ twin_state.core = "critical"
    /\ Len(appended) >= 2
    /\ fits > Len(appended)
    /\ anomalies[Len(anomalies)].timestamp < data_count
    /\ aiPc = "dead"

\* C31: every event in the log has zone core, a severity above 0.2 (the
\* threshold of line 190 with its sign changed) and a timestamp that is at
\* least the warm-up floor and at most the current sample count.
C31_EventFields ==
    \A i \in 1..Len(anomalies) :
        /\ anomalies[i].zone = "core"
        /\ anomalies[i].severity > -Threshold
        /\ WarmupFloor <= anomalies[i].timestamp
        /\ anomalies[i].timestamp <= data_count

C31_Witness ==
    /\ Len(anomalies) >= 2
    /\ anomalies[1].timestamp = WarmupFloor
    /\ anomalies[Len(anomalies)].timestamp = data_count
    /\ data_count > WarmupFloor
    /\ anomalies[1].severity > -Threshold

\* C32: the pH and the flow rate readings never have the status critical, and
\* a temperature or a pressure reading has it only when the tick that recorded
\* it injected a spike into that channel.
C32_CriticalOnlyBySpike ==
    /\ chan.id \in {"ph", "flowRate"} => chan.status # "critical"
    /\ (chan.id \in WalkChannels /\ chan.status = "critical") => chan.hit = chan.id

C32_Witness ==
    /\ chan.id = "pressure"
    /\ chan.status = "critical"
    /\ chan.hit = "pressure"
    /\ chan.value > Config.pressure.max_val

\* C33: the status of a reading equals the classification of the value the
\* reading holds, the value rounded to two decimals, against the thresholds of
\* its channel.
C33_ReadingSelfConsistent ==
    (call.fn = "update_sensor" /\ call.done /\ call.id \in DOMAIN Fine)
    => call.status = status_of(call.stored, call.high_thresh, call.low_thresh)

\* C34: no connection occurs twice in the connection set, whatever attaches,
\* detaches and publish passes have happened.
C34_NoDuplicateClient ==
    \A i, j \in 1..Len(clients) : clients[i] = clients[j] => i = j

C34_Witness ==
    /\ clients = <<1, 3>>
    /\ hpc[2] = "done"
    /\ passes >= 1
    /\ simPc = "send"

====
